---- MODULE Spec2Model ----
(***************************************************************************)
(* MonoRange: the monorange detector and its SetCriterion                  *)
(* (lib/models/monorange/monorange.py) and the KITTI label loader          *)
(* (lib/datasets/kitti/kitti_dataset.py).                                  *)
(*                                                                         *)
(* Tensors are modelled by what the control flow reads of them: their      *)
(* layer of origin, their number of query slots, the arg-max class of a    *)
(* logit row.  Python exceptions are modelled as a position "raised"       *)
(* together with the exception's name.                                     *)
(***************************************************************************)
EXTENDS Integers, Sequences, FiniteSets, TLC

\* ------------------------------------------------------------------ bounds
MaxQueries == 2     \* num_queries ranges over 1..MaxQueries
MaxGroup == 2       \* group_num ranges over 1..MaxGroup
MaxLayers == 2      \* decoder layers / stacked levels range over 1..MaxLayers
MaxBatch == 2       \* images per batch
MaxTgt == 1         \* ground-truth labels per image
WorldSize == 1      \* what get_world_size() answers

\* ------------------------------------------------------- program constants
NumClasses == 3     \* KITTI's classes: Pedestrian, Car, Cyclist
max_objs == 50      \* self.max_objs
MixTries == 50      \* the bound of `while count_num < 50`
threshold == 65     \* the depth beyond which a primary object is ignored
MinDepth == 2       \* the depth below which an object is ignored

\* ----------------------------------------------------------------- helpers
Min(a, b) == IF a < b THEN a ELSE b
Max(a, b) == IF a > b THEN a ELSE b

\* Python's s[-1] and s[:-1] on a non-empty stack of levels.
Last(s) == s[Len(s)]
ButLast(s) == SubSeq(s, 1, Len(s) - 1)

RECURSIVE SumSeq(_)
SumSeq(s) == IF s = <<>> THEN 0 ELSE Head(s) + SumSeq(Tail(s))

\* ------------------------------------------------------------------- state
VARIABLES
    task,           \* which entry point this behaviour exercises
    \* ---- monorange
    mpc,            \* "new" | "ready" | "returned" | "raised"
    mexc,           \* name of the exception raised, "" if none
    margs,          \* the arguments monorange(...) is constructed with
    mself,          \* the module's fields once constructed
    query_embeds,   \* rows of the embedding handed to det2d_transformer
    levels,         \* <<hs_2d.shape[0], hs.shape[0]>> of the last forward
    out,            \* the dict monorange.forward returned
    \* ---- SetCriterion
    cself,          \* the criterion's fields
    outputs,        \* forward's argument outputs
    targets,        \* forward's argument targets: labels per image
    cpc,            \* position inside SetCriterion.forward
    cexc,           \* name of the exception raised, "" if none
    group_num,      \* forward's local group_num
    num_boxes,      \* forward's local num_boxes, <<numerator, denominator>>
    indices,        \* forward's local indices: the matching in use
    matcher_calls,  \* the calls made to self.matcher, in order
    loss_calls,     \* the calls made to get_loss, in order
    losses,         \* forward's local dict losses
    \* ---- build
    bpc,            \* "new" | "returned" | "raised"
    bcfg,           \* the cfg build() is called with
    built,          \* what build() ended in
    \* ---- loss_cardinality
    card_in,        \* its arguments: arg-max class per image and query, labels per image
    card_out,       \* the cardinality_error it returned, <<numerator, denominator>>
    \* ---- KITTI_Dataset
    dpc,            \* position: "new", "ready", in __getitem__, "returned", "raised"
    dexc,           \* name of the exception raised, "" if none
    dargs,          \* the arguments KITTI_Dataset(...) is constructed with
    dself,          \* the dataset's fields once constructed
    opened,         \* the files open() was called on, in order
    index,          \* __getitem__'s local index
    random_mix_flag,    \* its local random_mix_flag
    random_flip_flag,   \* its local random_flip_flag
    count_num,      \* its local count_num
    random_index,   \* its local random_index
    calib,          \* its local calib
    img,            \* its local img: what the image was made from
    range,          \* what its local name `range` is bound to
    objects,        \* its local objects: the label file being encoded
    object_num,     \* its local object_num
    object_num_temp,    \* its local object_num_temp
    loop_i,         \* the local i of the encoding loop in progress
    writes,         \* the rows of the target arrays written so far
    result          \* what __getitem__ returned

modelVars == <<mpc, mexc, margs, mself, query_embeds, levels, out>>
critVars == <<cself, outputs, targets, cpc, cexc, group_num, num_boxes,
              indices, matcher_calls, loss_calls, losses>>
buildVars == <<bpc, bcfg, built>>
cardVars == <<card_in, card_out>>
itemVars == <<index, random_mix_flag, random_flip_flag, count_num, random_index,
              calib, img, range, objects, object_num, object_num_temp, loop_i,
              writes, result>>
dataVars == <<dpc, dexc, dargs, dself, opened, itemVars>>
vars == <<task, modelVars, critVars, buildVars, cardVars, dataVars>>

None == "None"

\* A name of the dataset or of __getitem__ that nothing is bound to yet.
Unset == [unset |-> TRUE]

\* ---------------------------------------------------------------- monorange

\* monorange.__init__: the fields the forward pass reads.  With
\* with_box_refine false the else branch ends in an assignment through
\* self.rangeaware_transformer, an attribute that is never set.
monorange_init(a) ==
    [num_queries      |-> a.num_queries,
     num_classes      |-> a.num_classes,
     aux_loss         |-> a.aux_loss,
     with_box_refine  |-> a.with_box_refine,
     query_embed_rows |-> a.num_queries * a.group_num,
     num_pred         |-> a.dec3d_layers + 1,
     training         |-> TRUE]

init_raises(a) == ~a.with_box_refine

\* The output of prediction head `head` applied to level lvl of stack src.
HeadOut(head, src, lvl, slots) ==
    [head |-> head, src |-> src, lvl |-> lvl, slots |-> slots]

\* query_embeds of forward: the whole embedding table when training, its
\* first num_queries rows otherwise.
forward_query_embeds(self) ==
    IF self.training
    THEN self.query_embed_rows
    ELSE Min(self.num_queries, self.query_embed_rows)

\* _set_aux_loss without the [:-1]: the last level is listed too.
_set_aux_loss_all(outputs_class, outputs_coord, outputs_3d_dim, outputs_angle, outputs_range) ==
    [i \in 1..Len(outputs_class) |->
        [pred_logits |-> outputs_class[i],
         pred_boxes  |-> outputs_coord[i],
         pred_3d_dim |-> outputs_3d_dim[i],
         pred_angle  |-> outputs_angle[i],
         pred_range  |-> outputs_range[i]]]

_set_aux_loss(outputs_class, outputs_coord, outputs_3d_dim, outputs_angle, outputs_range) ==
    [i \in 1..(Len(outputs_class) - 1) |->
        [pred_logits |-> ButLast(outputs_class)[i],
         pred_boxes  |-> ButLast(outputs_coord)[i],
         pred_3d_dim |-> ButLast(outputs_3d_dim)[i],
         pred_angle  |-> ButLast(outputs_angle)[i],
         pred_range  |-> ButLast(outputs_range)[i]]]

_set_inter_loss(outputs_class, outputs_coord) ==
    [i \in 1..Len(outputs_class) |->
        [pred_logits |-> outputs_class[i], pred_boxes |-> outputs_coord[i]]]

\* The dict forward builds from hs_2d (L2 levels) and hs (L3 levels), each
\* level holding `slots` query slots.
forward_out(aux_loss, slots, L2, L3) ==
    LET inter_coord    == [l \in 1..L2 |-> HeadOut("bbox_embed", "hs_2d", l - 1, slots)]
        inter_class    == [l \in 1..L2 |-> HeadOut("class_embed", "hs_2d", l - 1, slots)]
        outputs_coord  == [l \in 1..L3 |-> HeadOut("bbox_embed", "hs", l - 1, slots)]
        outputs_class  == [l \in 1..L3 |-> HeadOut("class_embed", "hs", l - 1, slots)]
        outputs_3d_dim == [l \in 1..L3 |-> HeadOut("dim_embed_3d", "hs", l - 1, slots)]
        outputs_range  == [l \in 1..L3 |-> HeadOut("range_embed", "hs", l - 1, slots)]
        outputs_angle  == [l \in 1..L3 |-> HeadOut("angle_embed", "hs", l - 1, slots)]
        base == [pred_logits           |-> Last(outputs_class),
                 pred_boxes            |-> Last(outputs_coord),
                 pred_3d_dim           |-> Last(outputs_3d_dim),
                 pred_range            |-> Last(outputs_range),
                 pred_angle            |-> Last(outputs_angle),
                 pred_range_map_logits |-> HeadOut("rangemap", "srcs", 0, 0),
                 pred_region_prob      |-> HeadOut("region_head", "srcs", 0, 0),
                 projected_2d_boxes    |-> HeadOut("project_3d_to_2d", "hs", L3 - 1, slots),
                 inter_outputs         |-> _set_inter_loss(inter_class, inter_coord)]
    IN  IF aux_loss
        THEN base @@ [aux_outputs |-> _set_aux_loss(outputs_class, outputs_coord,
                                                    outputs_3d_dim, outputs_angle,
                                                    outputs_range)]
        ELSE base

MonorangeArgs ==
    [num_queries : 1..MaxQueries, group_num : 1..MaxGroup,
     num_classes : {NumClasses}, aux_loss : BOOLEAN, with_box_refine : BOOLEAN,
     dec3d_layers : 1..MaxLayers]

\* model = monorange(...)
MonorangeConstruct ==
    /\ task = "model" /\ mpc = "new"
    /\ IF init_raises(margs)
       THEN /\ mpc' = "raised" /\ mexc' = "AttributeError"
            /\ UNCHANGED mself
       ELSE /\ mpc' = "ready" /\ mexc' = ""
            /\ mself' = monorange_init(margs)
    /\ UNCHANGED <<task, margs, query_embeds, levels, out, critVars, buildVars, cardVars, dataVars>>

\* model.train(mode) / model.eval(): nn.Module's switch of self.training.
MonorangeTrain ==
    /\ task = "model" /\ mpc = "ready"
    /\ \E mode \in BOOLEAN : mself' = [mself EXCEPT !.training = mode]
    /\ UNCHANGED <<task, mpc, mexc, margs, query_embeds, levels, out, critVars, buildVars, cardVars, dataVars>>

\* out = model(images, calibs, targets, img_sizes).  L2 and L3 are the
\* numbers of levels the two transformers return; the per-level heads are
\* ModuleLists of num_pred entries.
MonorangeForward ==
    /\ task = "model" /\ mpc = "ready"
    /\ \E L2 \in 1..MaxLayers, L3 \in 1..MaxLayers :
          /\ query_embeds' = forward_query_embeds(mself)
          /\ levels' = <<L2, L3>>
          /\ IF L2 > mself.num_pred \/ L3 > mself.num_pred
             THEN /\ mpc' = "raised" /\ mexc' = "IndexError"
                  /\ UNCHANGED out
             ELSE /\ mpc' = "returned" /\ mexc' = ""
                  /\ out' = forward_out(mself.aux_loss, forward_query_embeds(mself), L2, L3)
    /\ UNCHANGED <<task, margs, mself, critVars, buildVars, cardVars, dataVars>>

\* ------------------------------------------------------------------- build

\* A key of a loss or weight dict: `name` followed by a suffix.  The key k
\* itself is Key(k, "", 0); k + f'_{i}' is Key(k, "_", i); k + '_enc' is
\* Key(k, "_enc", 0); k + f'_inter_{i}' is Key(k, "_inter_", i).
Key(name, sfx, i) == [name |-> name, sfx |-> sfx, i |-> i]

\* Python's dict.update: the entries of `new` replace those of d.
update(d, new) == new @@ d

\* losses and inter_losses as build() lists them.
build_losses ==
    <<"labels", "boxes", "cardinality", "ranges", "dims", "angles", "center",
      "range_map", "region">>

build_inter_losses == <<"labels", "boxes", "center">>

\* weight_dict before any suffixed key is added: loss name -> the cfg key
\* its weight is read from.
build_base_weights ==
    [n \in {"loss_ce", "loss_bbox", "loss_giou", "loss_dim", "loss_angle",
            "loss_range", "loss_center", "loss_range_map", "loss_region",
            "loss_cycle_consistency"} |->
        CASE n = "loss_ce" -> "cls_loss_coef"
          [] n = "loss_bbox" -> "bbox_loss_coef"
          [] n = "loss_giou" -> "giou_loss_coef"
          [] n = "loss_dim" -> "dim_loss_coef"
          [] n = "loss_angle" -> "angle_loss_coef"
          [] n = "loss_range" -> "range_loss_coef"
          [] n = "loss_center" -> "3dcenter_loss_coef"
          [] n = "loss_range_map" -> "range_map_loss_coef"
          [] n = "loss_region" -> "region_loss_coef"
          [] n = "loss_cycle_consistency" -> "cycle_loss_coef"]

build_inter_keys == {"loss_ce", "loss_bbox", "loss_center", "loss_giou"}

\* weight_dict as build() leaves it, for cfg['aux_loss'] and
\* cfg['dec_layers'].
build_weight_dict(aux_loss, dec_layers) ==
    LET names == DOMAIN build_base_weights
        base  == [k \in {Key(n, "", 0) : n \in names} |-> build_base_weights[k.name]]
        auxk  == {Key(n, "_", i) : n \in names, i \in 0..(dec_layers - 2)}
                 \cup {Key(n, "_enc", 0) : n \in names}
        aux_weight_dict == [k \in auxk |-> build_base_weights[k.name]]
        w1    == IF aux_loss THEN update(base, aux_weight_dict) ELSE base
        intk  == {Key(k.name, "_inter_", i) :
                    k \in {x \in DOMAIN w1 : x.sfx = "" /\ x.name \in build_inter_keys},
                    i \in 0..(dec_layers - 1)}
        inter_weight_dict == [k \in intk |-> build_base_weights[k.name]]
    IN  update(w1, inter_weight_dict)

\* -------------------------------------------------------------- SetCriterion

SetCriterion_init(num_classes, weight_dict, losses_, inter_losses, group_num_) ==
    [num_classes  |-> num_classes,
     weight_dict  |-> weight_dict,
     losses       |-> losses_,
     inter_losses |-> inter_losses,
     group_num    |-> group_num_,
     training     |-> TRUE]

loss_map ==
    {"labels", "cardinality", "boxes", "ranges", "dims", "angles", "center",
     "range_map", "region", "cycle_consistency"}

\* The entries of `outputs` a loss function subscripts.
loss_reads(loss) ==
    CASE loss = "labels" -> {"pred_logits"}
      [] loss = "cardinality" -> {"pred_logits"}
      [] loss = "boxes" -> {"pred_boxes"}
      [] loss = "ranges" -> {"pred_range"}
      [] loss = "dims" -> {"pred_3d_dim"}
      [] loss = "angles" -> {"pred_angle"}
      [] loss = "center" -> {"pred_boxes"}
      [] loss = "range_map" -> {"pred_range_map_logits"}
      [] loss = "region" -> {"pred_region_prob"}
      [] loss = "cycle_consistency" -> {"pred_boxes", "projected_2d_boxes"}

\* The keys of the dict a loss function returns.
loss_emits(loss, log) ==
    CASE loss = "labels" -> IF log THEN {"loss_ce", "class_error"} ELSE {"loss_ce"}
      [] loss = "cardinality" -> {"cardinality_error"}
      [] loss = "boxes" -> {"loss_bbox", "loss_giou"}
      [] loss = "ranges" -> {"loss_range"}
      [] loss = "dims" -> {"loss_dim"}
      [] loss = "angles" -> {"loss_angle"}
      [] loss = "center" -> {"loss_center"}
      [] loss = "range_map" -> {"loss_range_map"}
      [] loss = "region" -> {"loss_region"}
      [] loss = "cycle_consistency" -> {"loss_cycle_consistency"}

\* The layer a dict of predictions belongs to: its class logits.
LayerOf(o) == o.pred_logits

\* get_loss: the exception it ends in ("" if none) and the keys it returns.
get_loss(loss, o, log) ==
    IF loss \notin loss_map
    THEN [exc |-> "AssertionError", keys |-> {}]
    ELSE IF ~(loss_reads(loss) \subseteq DOMAIN o)
    THEN [exc |-> IF loss \in {"labels", "boxes"} THEN "AssertionError" ELSE "KeyError",
          keys |-> {}]
    ELSE [exc |-> "", keys |-> loss_emits(loss, log)]

\* self.matcher(o, targets, group_num=g): the matching it returns is a
\* function of the predictions it is given, the targets and g.
matcher(o, t, g) ==
    [layer |-> LayerOf(o), keys |-> DOMAIN o, targets |-> t, group_num |-> g]

outputs_without_aux(o) ==
    [k \in DOMAIN o \ {"aux_outputs", "inter_outputs"} |-> o[k]]

\* group_num and num_boxes of forward.  num_boxes is the fraction
\* max(total * group_num / world_size, 1), kept as <<numerator, denominator>>.
\* group_num taken from the criterion whatever the mode.
forward_group_num_always(self) == self.group_num

forward_group_num(self) == IF self.training THEN self.group_num ELSE 1

forward_num_boxes(t, g) == <<Max(SumSeq(t) * g, WorldSize), WorldSize>>

Pos(phase, i, j) == [phase |-> phase, i |-> i, j |-> j]

NumInter(o) == Len(o.inter_outputs)
NumAux(o) == IF "aux_outputs" \in DOMAIN o THEN Len(o.aux_outputs) ELSE 0

LossesOf(self, phase) == IF phase = "inter" THEN self.inter_losses ELSE self.losses

\* Where forward goes once layer i of `phase` has had all its losses.
AfterLayer(self, o, phase, i) ==
    CASE phase = "inter" ->
            IF i + 1 < NumInter(o) THEN Pos("inter", i + 1, 0) ELSE Pos("final", 0, 0)
      [] phase = "final" ->
            IF NumAux(o) > 0 THEN Pos("aux", 0, 0) ELSE Pos("returned", 0, 0)
      [] phase = "aux" ->
            IF i + 1 < NumAux(o) THEN Pos("aux", i + 1, 0) ELSE Pos("returned", 0, 0)

AfterMatch(self, o, phase, i) ==
    IF Len(LossesOf(self, phase)) > 0 THEN Pos(phase, i, 1) ELSE AfterLayer(self, o, phase, i)

AfterLoss(self, o, phase, i, j) ==
    IF j < Len(LossesOf(self, phase)) THEN Pos(phase, i, j + 1) ELSE AfterLayer(self, o, phase, i)

\* The dict of predictions each phase supervises.
LayerOutputs(o, phase, i) ==
    CASE phase = "inter" -> o.inter_outputs[i + 1]
      [] phase = "final" -> o
      [] phase = "aux" -> o.aux_outputs[i + 1]

\* The matcher given the final layer's predictions at every call site.
MatcherInput_final(o, phase, i) == outputs_without_aux(o)

\* What the matcher is given in each phase.
MatcherInput(o, phase, i) ==
    IF phase = "final" THEN outputs_without_aux(o) ELSE LayerOutputs(o, phase, i)

KeySuffix(phase) ==
    CASE phase = "inter" -> "_inter_" [] phase = "final" -> "" [] phase = "aux" -> "_"

\* The names bound at module level of monorange.py: its imports and its
\* own definitions.
module_globals ==
    {"torch", "F", "nn", "math", "copy", "box_ops", "NestedTensor",
     "nested_tensor_from_tensor_list", "accuracy", "get_world_size",
     "interpolate", "is_dist_avail_and_initialized", "inverse_sigmoid",
     "build_backbone", "build_matcher", "build_det2d_transformer",
     "build_det3d_transformer", "RegionSegHead", "rangemap", "DDNLoss",
     "sigmoid_focal_loss", "PositionEmbeddingCamRay", "_get_clones",
     "monorange", "SetCriterion", "MLP", "build"}

\* The name build() calls to make the range prediction module.
build_range_predictor_name == "rangePredictor"

\* The arguments build() constructs monorange with.
build_model_args(cfg) ==
    [num_queries |-> cfg.num_queries, group_num |-> cfg.group_num,
     num_classes |-> cfg.num_classes, aux_loss |-> cfg.aux_loss,
     with_box_refine |-> cfg.with_box_refine, dec3d_layers |-> cfg.dec_layers]

\* The criterion build() constructs.
build_criterion(cfg) ==
    SetCriterion_init(cfg.num_classes, build_weight_dict(cfg.aux_loss, cfg.dec_layers),
                      build_losses, build_inter_losses, cfg.group_num)

\* build(cfg), statement by statement: the exception it ends in ("" if it
\* returns) and the pair it returns.
build(cfg) ==
    IF build_range_predictor_name \notin module_globals
    THEN [exc |-> "NameError", model |-> None, criterion |-> None]
    ELSE IF init_raises(build_model_args(cfg))
    THEN [exc |-> "AttributeError", model |-> None, criterion |-> None]
    ELSE [exc |-> "",
          model |-> [class |-> "monorange", self |-> monorange_init(build_model_args(cfg))],
          criterion |-> [class |-> "SetCriterion", self |-> build_criterion(cfg)]]

BuildCfgs ==
    [num_queries : 1..MaxQueries, group_num : 1..MaxGroup, num_classes : {NumClasses},
     aux_loss : BOOLEAN, with_box_refine : BOOLEAN, dec_layers : 1..MaxLayers]

\* model, criterion = build(cfg)
Build ==
    /\ task = "build" /\ bpc = "new"
    /\ built' = build(bcfg)
    /\ bpc' = IF build(bcfg).exc = "" THEN "returned" ELSE "raised"
    /\ UNCHANGED <<task, bcfg, modelVars, critVars, cardVars, dataVars>>

InitBuild ==
    /\ task = "build" /\ bpc = "new" /\ bcfg \in BuildCfgs /\ built = None

\* criterion.train(mode) / criterion.eval()
CriterionTrain ==
    /\ task = "criterion" /\ cpc.phase = "call"
    /\ \E mode \in BOOLEAN : cself' = [cself EXCEPT !.training = mode]
    /\ UNCHANGED <<task, modelVars, buildVars, cardVars, dataVars, outputs, targets, cpc, cexc, group_num,
                   num_boxes, indices, matcher_calls, loss_calls, losses>>

\* forward, up to the first loop
CriterionForward ==
    /\ task = "criterion" /\ cpc.phase = "call"
    /\ group_num' = forward_group_num(cself)
    /\ num_boxes' = forward_num_boxes(targets, forward_group_num(cself))
    /\ losses' = <<>>
    /\ cpc' = IF NumInter(outputs) > 0 THEN Pos("inter", 0, 0) ELSE Pos("final", 0, 0)
    /\ UNCHANGED <<task, modelVars, buildVars, cardVars, dataVars, cself, outputs, targets, cexc, indices,
                   matcher_calls, loss_calls>>

\* indices = self.matcher(...), at one of its three call sites
MatchStep(phase) ==
    /\ task = "criterion" /\ cpc.phase = phase /\ cpc.j = 0
    /\ LET m == matcher(MatcherInput(outputs, phase, cpc.i), targets, group_num)
       IN  /\ indices' = m
           /\ matcher_calls' = Append(matcher_calls, m)
    /\ cpc' = AfterMatch(cself, outputs, phase, cpc.i)
    /\ UNCHANGED <<task, modelVars, buildVars, cardVars, dataVars, cself, outputs, targets, cexc, group_num,
                   num_boxes, loss_calls, losses>>

\* one turn of `for loss in ...` at one of the three loops
LossStep(phase) ==
    /\ task = "criterion" /\ cpc.phase = phase /\ cpc.j >= 1
    /\ LET loss == LossesOf(cself, phase)[cpc.j]
           o    == LayerOutputs(outputs, phase, cpc.i)
           skip == phase = "aux" /\ loss \in {"range_map", "region"}
           log  == ~(phase = "aux" /\ loss = "labels")
           r    == get_loss(loss, o, log)
           call == [loss |-> loss, layer |-> LayerOf(o), indices |-> indices,
                    num_boxes |-> num_boxes]
           l_dict == [k \in {Key(n, KeySuffix(phase), IF phase = "final" THEN 0 ELSE cpc.i) :
                               n \in r.keys} |-> call]
       IN  IF skip
           THEN /\ cpc' = AfterLoss(cself, outputs, phase, cpc.i, cpc.j)
                /\ UNCHANGED <<cexc, loss_calls, losses>>
           ELSE IF r.exc # ""
           THEN /\ cpc' = Pos("raised", cpc.i, cpc.j)
                /\ cexc' = r.exc
                /\ loss_calls' = Append(loss_calls, call)
                /\ UNCHANGED losses
           ELSE /\ cpc' = AfterLoss(cself, outputs, phase, cpc.i, cpc.j)
                /\ loss_calls' = Append(loss_calls, call)
                /\ losses' = update(losses, l_dict)
                /\ UNCHANGED cexc
    /\ UNCHANGED <<task, modelVars, buildVars, cardVars, dataVars, cself, outputs, targets, group_num,
                   num_boxes, indices, matcher_calls>>

InterMatch == MatchStep("inter")
InterLoss == LossStep("inter")
FinalMatch == MatchStep("final")
FinalLoss == LossStep("final")
AuxMatch == MatchStep("aux")
AuxLoss == LossStep("aux")

\* The lists of losses a criterion is built with: those of build(), and
\* others a caller of SetCriterion may pass.
LossLists ==
    {build_losses, build_losses \o <<"cycle_consistency">>,
     <<"cardinality", "labels">>, <<"masks">>, <<>>}

InterLossLists == {build_inter_losses, <<"labels", "ranges">>, <<>>}

InitCriterion ==
    /\ task = "criterion"
    /\ \E aux \in BOOLEAN, L2 \in 1..MaxLayers, L3 \in 1..MaxLayers,
          ls \in LossLists, ils \in InterLossLists, g \in 1..MaxGroup :
          /\ outputs = forward_out(aux, MaxQueries, L2, L3)
          /\ cself = SetCriterion_init(NumClasses, build_weight_dict(aux, L3), ls, ils, g)
    /\ targets \in UNION {[1..b -> 0..MaxTgt] : b \in 1..MaxBatch}
    /\ cpc = Pos("call", 0, 0) /\ cexc = ""
    /\ group_num = 0 /\ num_boxes = <<0, 1>> /\ indices = None
    /\ matcher_calls = <<>> /\ loss_calls = <<>> /\ losses = <<>>

InitModel ==
    /\ task = "model"
    /\ mpc = "new" /\ mexc = ""
    /\ margs \in MonorangeArgs
    /\ mself = None /\ query_embeds = 0 /\ levels = <<0, 0>> /\ out = None

IdleModel ==
    /\ mpc = "idle" /\ mexc = "" /\ margs = None /\ mself = None
    /\ query_embeds = 0 /\ levels = <<0, 0>> /\ out = None

IdleBuild ==
    /\ bpc = "idle" /\ bcfg = None /\ built = None

IdleCard ==
    /\ card_in = None /\ card_out = <<0, 1>>

IdleItem ==
    /\ index = 0 /\ random_mix_flag = FALSE /\ random_flip_flag = FALSE
    /\ count_num = 0 /\ random_index = 0 /\ calib = Unset /\ img = Unset
    /\ range = "unbound" /\ objects = Unset /\ object_num = 0
    /\ object_num_temp = 0 /\ loop_i = 0 /\ writes = {} /\ result = <<>>

IdleData ==
    /\ dpc = "idle" /\ dexc = "" /\ dargs = None /\ dself = Unset
    /\ opened = <<>> /\ IdleItem

IdleCrit ==
    /\ cself = None /\ outputs = None /\ targets = <<>> /\ cpc = Pos("idle", 0, 0)
    /\ cexc = "" /\ group_num = 0 /\ num_boxes = <<0, 1>> /\ indices = None
    /\ matcher_calls = <<>> /\ loss_calls = <<>> /\ losses = <<>>

\* ---------------------------------------------------------- loss_cardinality

Abs(x) == IF x < 0 THEN -x ELSE x

\* card_pred of one image: the queries whose arg-max is not the last index
\* of the logits' class dimension.
card_pred(row, n_logits) == Cardinality({q \in DOMAIN row : row[q] # n_logits - 1})

\* loss_cardinality: F.l1_loss of card_pred against the numbers of labels,
\* the mean over the batch kept as <<sum, batch size>>.
loss_cardinality(argmax, n_logits, tgt_lengths) ==
    <<SumSeq([b \in DOMAIN argmax |-> Abs(card_pred(argmax[b], n_logits) - tgt_lengths[b])]),
      Len(argmax)>>

\* losses = criterion.loss_cardinality(outputs, targets, indices, num_boxes)
LossCardinality ==
    /\ task = "cardinality" /\ card_out = <<0, 0>>
    /\ card_out' = loss_cardinality(card_in.argmax, card_in.n_logits, card_in.tgt_lengths)
    /\ UNCHANGED <<task, card_in, modelVars, critVars, buildVars, dataVars>>

\* pred_logits comes from class_embed, a Linear with num_classes outputs.
InitCard ==
    /\ task = "cardinality"
    /\ \E B \in 1..MaxBatch, Q \in 1..MaxQueries :
          \E am \in [1..B -> [1..Q -> 0..(NumClasses - 1)]], tl \in [1..B -> 0..MaxTgt] :
             card_in = [argmax |-> am, n_logits |-> NumClasses, tgt_lengths |-> tl]
    /\ card_out = <<0, 0>>

\* ------------------------------------------------------------ KITTI_Dataset

\* cfg.get(key, default) on a cfg that holds some of the keys.
cfg_get(cfg, key, default) == IF key \in DOMAIN cfg THEN cfg[key] ELSE default

\* os.path.join(a, b): the path a, then b.
path_join(a, b) == a \o <<b>>

\* The splits the constructor asserts.
accepted_splits_val == {"train", "val", "trainval", "test"}

accepted_splits == {"train", "rain_1", "trainval", "test"}

accepted_bbox2d_types == {"anno", "proj"}

\* The data on disk.  Samples 0..4, every one with its image, its label
\* file and its calibration file; every split file that exists lists them
\* all.  An object of a label file is what the encoding reads of it: class,
\* level, depth pos[-1], whether its projected 3D centre falls inside the
\* image, whether one of l, r, t, b comes out negative, and whether its
\* truncation and occlusion are within 0.5 and 2.
Obj(cls_type, level_str, depth, inside, lrtb_neg) ==
    [cls_type |-> cls_type, level_str |-> level_str, depth |-> depth,
     inside |-> inside, lrtb_neg |-> lrtb_neg,
     visible |-> level_str \in {"Easy", "Moderate"}]

CarOk == Obj("Car", "Easy", 30, TRUE, FALSE)
CarFar == Obj("Car", "Hard", threshold + 5, TRUE, FALSE)
CarEdge == Obj("Car", "Moderate", threshold, TRUE, FALSE)
CarNear == Obj("Car", "Easy", MinDepth - 1, TRUE, FALSE)
CarUnKnown == Obj("Car", "UnKnown", 30, TRUE, FALSE)
CarOutside == Obj("Car", "Easy", 30, FALSE, FALSE)
CarCut == Obj("Car", "Easy", MinDepth, TRUE, TRUE)
Ped == Obj("Pedestrian", "Easy", 30, TRUE, FALSE)
Van == Obj("Van", "Easy", 30, TRUE, FALSE)

\* A label file: n objects, object k (from 0) being pat[k mod Len(pat)].
Labels(n, pat) == [n |-> n, pat |-> pat]

len(objs) == objs.n
ObjAt(objs, k) == objs.pat[(k % Len(objs.pat)) + 1]

SampleIds == 0..4

label_files ==
    [idx \in SampleIds |->
        CASE idx = 0 -> Labels(3, <<CarOk, CarFar, CarCut>>)
          [] idx = 1 -> Labels(5, <<Ped, CarUnKnown, CarNear, CarEdge, Van>>)
          [] idx = 2 -> Labels(max_objs - 4, <<CarOk, CarOutside, CarFar>>)
          [] idx = 3 -> Labels(max_objs + 2, <<CarOk, CarFar>>)
          [] idx = 4 -> Labels(0, <<CarOk>>)]

\* Image sizes (W, H).
image_files ==
    [idx \in SampleIds |-> IF idx = 4 THEN <<1224, 370>> ELSE <<1242, 375>>]

\* Calibration files: the camera of each sample.
calib_files ==
    [idx \in SampleIds |->
        IF idx = 1
        THEN [cu |-> 609, cv |-> 172, fu |-> 721, fv |-> 721, P2 |-> "P2_of_1"]
        ELSE [cu |-> 607, cv |-> 185, fu |-> 718, fv |-> 718, P2 |-> "P2_of_other"]]

split_file_lines == <<"000000", "000001", "000002", "000003", "000004">>

\* int() of a line of the split file.
int_of(line) ==
    CASE line = "000000" -> 0 [] line = "000001" -> 1 [] line = "000002" -> 2
      [] line = "000003" -> 3 [] line = "000004" -> 4

\* KITTI_Dataset.__init__, statement by statement: the exception it ends
\* in ("" if none), the files it opened, the fields it set.
KITTI_Dataset_init(split, cfg, split_file_exists) ==
    LET root_dir    == cfg_get(cfg, "root_dir", None)
        bbox2d_type == cfg_get(cfg, "bbox2d_type", "anno")
        writelist   == cfg_get(cfg, "writelist", {"Car"})
                       \cup (IF cfg_get(cfg, "class_merging", FALSE) THEN {"Van", "Truck"} ELSE {})
                       \cup (IF cfg_get(cfg, "use_dontcare", FALSE) THEN {"DontCare"} ELSE {})
        split_file  == path_join(path_join(<<root_dir>>, "ImageSets"), split)
        data_dir    == path_join(<<root_dir>>, IF split = "test" THEN "testing" ELSE "training")
    IN  IF bbox2d_type \notin accepted_bbox2d_types
        THEN [exc |-> "AssertionError", opened |-> <<>>, self |-> Unset]
        ELSE IF split \notin accepted_splits
        THEN [exc |-> "AssertionError", opened |-> <<>>, self |-> Unset]
        ELSE IF ~split_file_exists
        THEN [exc |-> "FileNotFoundError", opened |-> <<split_file>>, self |-> Unset]
        ELSE [exc |-> "", opened |-> <<split_file>>,
              self |-> [split |-> split,
                        max_objs |-> max_objs,
                        writelist |-> writelist,
                        bbox2d_type |-> bbox2d_type,
                        idx_list |-> split_file_lines,
                        data_dir |-> data_dir,
                        image_dir |-> path_join(data_dir, "demo_rain"),
                        calib_dir |-> path_join(data_dir, "calib"),
                        label_dir |-> path_join(data_dir, "label_2"),
                        cls2id |-> [Pedestrian |-> 0, Car |-> 1, Cyclist |-> 2],
                        range_scale |-> cfg_get(cfg, "range_scale", "normal"),
                        data_augmentation |-> split \in {"train", "trainval"},
                        clip_2d |-> cfg_get(cfg, "clip_2d", FALSE)]]

\* get_image(idx).size, get_label(idx), get_calib(idx).  get_calib reads
\* the file '000000.txt' of calib_dir whatever idx is.
get_image(idx) == image_files[idx]
get_label(idx) == label_files[idx]
get_calib(idx) == calib_files[0]

DatasetSplits == {"train", "rain_1", "trainval", "test", "val"}

DatasetCfgs ==
    {[root_dir |-> "kitti"] @@ b @@ m @@ d @@ c :
        b \in {<<>>, [bbox2d_type |-> "anno"], [bbox2d_type |-> "proj"],
               [bbox2d_type |-> "pred"]},
        m \in {<<>>, [class_merging |-> TRUE]},
        d \in {<<>>, [use_dontcare |-> TRUE]},
        c \in {<<>>, [clip_2d |-> TRUE]}}

\* dataset = KITTI_Dataset(split, cfg)
DatasetConstruct ==
    /\ task = "dataset" /\ dpc = "new"
    /\ \E split_file_exists \in BOOLEAN :
          LET r == KITTI_Dataset_init(dargs.split, dargs.cfg, split_file_exists)
          IN  /\ dexc' = r.exc
              /\ opened' = r.opened
              /\ dself' = r.self
              /\ dpc' = IF r.exc = "" THEN "ready" ELSE "failed"
    /\ UNCHANGED <<task, dargs, itemVars, modelVars, critVars, buildVars, cardVars>>

\* __getitem__(item) up to the mixup search: the image and calibration are
\* loaded and the augmentation flags drawn.
GetItemBegin ==
    /\ task = "dataset" /\ dpc = "ready"
    /\ \E item \in 0..(Len(dself.idx_list) - 1), mix \in BOOLEAN, flip \in BOOLEAN :
          LET idx == int_of(dself.idx_list[item + 1])
              do_mix  == dself.data_augmentation /\ mix
              do_flip == dself.data_augmentation /\ flip
          IN  /\ index' = idx
              /\ img' = [of |-> idx, size |-> get_image(idx), flipped |-> do_flip,
                         blended |-> FALSE, with |-> idx, with_flipped |-> FALSE]
              /\ calib' = get_calib(idx)
              /\ random_flip_flag' = do_flip
              /\ random_mix_flag' = FALSE
              /\ count_num' = 0
              /\ dpc' = IF do_mix THEN "search" ELSE "encode"
    /\ UNCHANGED <<task, dexc, dargs, dself, opened, random_index, range, objects,
                   object_num, object_num_temp, loop_i, writes, result,
                   modelVars, critVars, buildVars, cardVars>>

\* Whether a candidate partner sample passes the three tests of the search.
mixup_accepts(idx, cand, calib_idx, calib_cand) ==
    /\ calib_cand.cu = calib_idx.cu /\ calib_cand.cv = calib_idx.cv
    /\ calib_cand.fu = calib_idx.fu /\ calib_cand.fv = calib_idx.fv
    /\ get_image(cand) = get_image(idx)
    /\ len(get_label(idx)) + len(get_label(cand)) < max_objs

\* Where the search goes after a turn that left count_num at n: out of the
\* loop by `break` on acceptance or when `count_num < 50` fails.
search_next_no_break(accepted, n) == IF n < MixTries THEN "search" ELSE "encode"

search_next(accepted, n) ==
    IF accepted THEN "encode" ELSE IF n < MixTries THEN "search" ELSE "encode"

\* One turn of `while count_num < 50`.
MixupTry ==
    /\ task = "dataset" /\ dpc = "search" /\ count_num < MixTries
    /\ count_num' = count_num + 1
    /\ \E line \in {dself.idx_list[k] : k \in 1..Len(dself.idx_list)} :
          LET cand == int_of(line)
          IN  /\ random_index' = cand
              /\ IF mixup_accepts(index, cand, calib, get_calib(cand))
                 THEN /\ random_mix_flag' = TRUE
                      /\ img' = [img EXCEPT !.blended = TRUE, !.with = cand,
                                            !.with_flipped = random_flip_flag]
                      /\ dpc' = search_next(TRUE, count_num + 1)
                 ELSE /\ dpc' = search_next(FALSE, count_num + 1)
                      /\ UNCHANGED <<random_mix_flag, img>>
    /\ UNCHANGED <<task, dexc, dargs, dself, opened, index, random_flip_flag, calib,
                   range, objects, object_num, object_num_temp, loop_i, writes, result,
                   modelVars, critVars, buildVars, cardVars>>

\* The call range(n) of line 282.  `range` is assigned in __getitem__, so
\* the name is the function's local: the array of line 269 by then.
call_range(binding) ==
    CASE binding = "ndarray" -> "TypeError"
      [] binding = "unbound" -> "UnboundLocalError"
      [] binding = "builtin" -> ""

\* The arrays of max_objs rows that __getitem__ allocates and returns in
\* targets (beside them targets holds img_size and obj_region, which have
\* no row per object).
target_arrays ==
    {"calibs", "indices", "labels", "boxes", "boxes_3d", "range", "size_2d",
     "size_3d", "src_size_3d", "heading_bin", "heading_res", "mask_2d"}

\* The tuple __getitem__ returns.
getitem_return(split, image, P2, rows, idx) ==
    IF split = "test"
    THEN <<image, P2, image, [img_id |-> idx]>>
    ELSE <<image, P2,
           [k \in target_arrays |->
               [rows |-> max_objs,
                written |-> {w \in rows : k \in w.arrays}]],
           [img_id |-> idx]>>

\* __getitem__ from the affine transformation on: the image is encoded; on
\* the test split the tuple is returned; otherwise the labels are loaded,
\* the target arrays allocated (which binds `range`) and the encoding loop
\* entered.
GetItemEncode ==
    /\ task = "dataset" /\ dpc = "encode"
    /\ IF dself.split = "test"
       THEN /\ result' = getitem_return(dself.split, img, get_calib(index).P2, {}, index)
            /\ dpc' = "returned"
            /\ UNCHANGED <<dexc, calib, range, objects, object_num, loop_i, writes>>
       ELSE /\ objects' = get_label(index)
            /\ calib' = get_calib(index)
            /\ range' = "ndarray"
            /\ writes' = {}
            /\ object_num' = Min(len(get_label(index)), max_objs)
            /\ loop_i' = 0
            /\ IF call_range("ndarray") # ""
               THEN /\ dpc' = "raised" /\ dexc' = call_range("ndarray")
               ELSE /\ dpc' = "primary" /\ UNCHANGED dexc
            /\ UNCHANGED result
    /\ UNCHANGED <<task, dargs, dself, opened, index, random_mix_flag,
                   random_flip_flag, count_num, random_index, img, object_num_temp,
                   modelVars, critVars, buildVars, cardVars>>

\* One turn of an encoding loop on object o: the exception it ends in and
\* the arrays it writes a row of.  The test against the threshold is made
\* in the loop over the primary sample only.
encode_object(self, o, primary) ==
    IF o.cls_type \notin self.writelist
    THEN [exc |-> "", arrays |-> {}]
    ELSE IF o.level_str = "UnKnown" \/ o.depth < MinDepth
    THEN [exc |-> "", arrays |-> {}]
    ELSE IF primary /\ o.depth > threshold
    THEN [exc |-> "", arrays |-> {}]
    ELSE IF ~o.inside
    THEN [exc |-> "", arrays |-> {}]
    ELSE IF o.cls_type \notin DOMAIN self.cls2id
    THEN [exc |-> "KeyError", arrays |-> {}]
    ELSE IF o.lrtb_neg /\ ~self.clip_2d
    THEN [exc |-> "", arrays |-> {"labels", "size_2d"}]
    ELSE [exc |-> "",
          arrays |-> {"labels", "size_2d", "boxes", "boxes_3d", "heading_bin",
                      "heading_res", "src_size_3d", "size_3d", "calibs"}
                     \cup (IF self.range_scale \in {"normal", "inverse", "none"}
                           THEN {"range"} ELSE {})
                     \cup (IF o.visible THEN {"mask_2d"} ELSE {})]

\* The row a partner object k is written to, after n primary rows.
partner_row_same(k, n) == k

partner_row(k, n) == k + n

\* A write: the row, the sample it came from, the object and the arrays.
Write(row, src, k, o, arrays) ==
    [row |-> row, src |-> src, k |-> k, obj |-> o, arrays |-> arrays]

\* One turn of `for i in range(object_num)`.
EncodePrimary ==
    /\ task = "dataset" /\ dpc = "primary" /\ loop_i < object_num
    /\ LET o == ObjAt(objects, loop_i)
           e == encode_object(dself, o, TRUE)
       IN  /\ writes' = IF e.arrays = {} THEN writes
                        ELSE writes \cup {Write(loop_i, "primary", loop_i, o, e.arrays)}
           /\ IF e.exc # ""
              THEN dpc' = "raised" /\ dexc' = e.exc /\ UNCHANGED loop_i
              ELSE loop_i' = loop_i + 1 /\ UNCHANGED <<dpc, dexc>>
    /\ UNCHANGED <<task, dargs, dself, opened, index, random_mix_flag,
                   random_flip_flag, count_num, random_index, calib, img, range,
                   objects, object_num, object_num_temp, result,
                   modelVars, critVars, buildVars, cardVars>>

\* The primary loop is over: `if random_mix_flag == True`, the partner's
\* labels are loaded and its budget of rows computed.
EncodeMixupBegin ==
    /\ task = "dataset" /\ dpc = "primary" /\ loop_i = object_num
    /\ IF random_mix_flag
       THEN /\ objects' = get_label(random_index)
            /\ object_num_temp' = Min(len(get_label(random_index)), max_objs - object_num)
            /\ loop_i' = 0
            /\ dpc' = "partner"
       ELSE /\ dpc' = "collect"
            /\ UNCHANGED <<objects, object_num_temp, loop_i>>
    /\ UNCHANGED <<task, dexc, dargs, dself, opened, index, random_mix_flag,
                   random_flip_flag, count_num, random_index, calib, img, range,
                   object_num, writes, result,
                   modelVars, critVars, buildVars, cardVars>>

\* One turn of `for i in range(object_num_temp)`.
EncodePartner ==
    /\ task = "dataset" /\ dpc = "partner" /\ loop_i < object_num_temp
    /\ LET o == ObjAt(objects, loop_i)
           e == encode_object(dself, o, FALSE)
       IN  /\ writes' = IF e.arrays = {} THEN writes
                        ELSE writes \cup {Write(partner_row(loop_i, object_num),
                                                "partner", loop_i, o, e.arrays)}
           /\ IF e.exc # ""
              THEN dpc' = "raised" /\ dexc' = e.exc /\ UNCHANGED loop_i
              ELSE loop_i' = loop_i + 1 /\ UNCHANGED <<dpc, dexc>>
    /\ UNCHANGED <<task, dargs, dself, opened, index, random_mix_flag,
                   random_flip_flag, count_num, random_index, calib, img, range,
                   objects, object_num, object_num_temp, result,
                   modelVars, critVars, buildVars, cardVars>>

\* `return inputs, calib.P2, targets, info`
EncodeReturn ==
    /\ task = "dataset"
    /\ dpc = "collect" \/ (dpc = "partner" /\ loop_i = object_num_temp)
    /\ result' = getitem_return(dself.split, img, calib.P2, writes, index)
    /\ dpc' = "returned"
    /\ UNCHANGED <<task, dexc, dargs, dself, opened, index, random_mix_flag,
                   random_flip_flag, count_num, random_index, calib, img, range,
                   objects, object_num, object_num_temp, loop_i, writes,
                   modelVars, critVars, buildVars, cardVars>>

InitData ==
    /\ task = "dataset" /\ dpc = "new" /\ dexc = ""
    /\ dargs \in [split : DatasetSplits, cfg : DatasetCfgs]
    /\ dself = Unset /\ opened = <<>> /\ IdleItem

NextData ==
    \/ DatasetConstruct
    \/ GetItemBegin
    \/ MixupTry
    \/ GetItemEncode

\* The dataset constructed and asked for an item.
DatasetInit == InitData /\ IdleModel /\ IdleCrit /\ IdleBuild /\ IdleCard

SpecData == DatasetInit /\ [][NextData]_vars

\* The same, a call that has begun carried on to its end: the constructor
\* and __getitem__ are straight-line code and a loop, run by one thread.
\* Every step of NextData moves dpc or count_num.
SpecDataFair ==
    DatasetInit /\ [][NextData]_vars /\ WF_<<dpc, count_num>>(NextData)

\* The label encoding of __getitem__ on its own: the two loops and the
\* return, from the entry of the first loop, with range(n) running over
\* 0..n-1 as the builtin does.  The state at the entry is what the
\* constructor and the first half of __getitem__ leave.
InitEncode ==
    /\ task = "dataset" /\ dpc = "primary" /\ dexc = ""
    /\ dargs \in [split : accepted_splits \ {"test"},
                  cfg : {c \in DatasetCfgs :
                            cfg_get(c, "bbox2d_type", "anno") \in accepted_bbox2d_types}]
    /\ dself = KITTI_Dataset_init(dargs.split, dargs.cfg, TRUE).self
    /\ opened = KITTI_Dataset_init(dargs.split, dargs.cfg, TRUE).opened
    /\ index \in SampleIds
    /\ random_flip_flag \in (IF dself.data_augmentation THEN BOOLEAN ELSE {FALSE})
    /\ random_mix_flag \in (IF dself.data_augmentation THEN BOOLEAN ELSE {FALSE})
    /\ IF random_mix_flag
       THEN /\ random_index \in {cand \in SampleIds :
                                   mixup_accepts(index, cand, get_calib(index), get_calib(cand))}
            /\ count_num = 1
       ELSE /\ random_index = 0
            /\ count_num = 0
    /\ img = [of |-> index, size |-> get_image(index), flipped |-> random_flip_flag,
              blended |-> random_mix_flag,
              with |-> IF random_mix_flag THEN random_index ELSE index,
              with_flipped |-> random_mix_flag /\ random_flip_flag]
    /\ calib = get_calib(index)
    /\ range = "ndarray"
    /\ objects = get_label(index)
    /\ object_num = Min(len(get_label(index)), max_objs)
    /\ object_num_temp = 0
    /\ loop_i = 0
    /\ writes = {}
    /\ result = <<>>

NextEncode ==
    \/ EncodePrimary
    \/ EncodeMixupBegin
    \/ EncodePartner
    \/ EncodeReturn

EncodeInit == InitEncode /\ IdleModel /\ IdleCrit /\ IdleBuild /\ IdleCard

SpecEncode == EncodeInit /\ [][NextEncode]_vars

Init ==
    /\ IdleCard /\ IdleData
    /\ \/ InitModel /\ IdleCrit /\ IdleBuild
       \/ InitCriterion /\ IdleModel /\ IdleBuild
       \/ InitBuild /\ IdleModel /\ IdleCrit

Next ==
    \/ MonorangeConstruct
    \/ MonorangeTrain
    \/ MonorangeForward
    \/ CriterionTrain
    \/ CriterionForward
    \/ InterMatch
    \/ InterLoss
    \/ FinalMatch
    \/ FinalLoss
    \/ AuxMatch
    \/ AuxLoss
    \/ Build

Spec == Init /\ [][Next]_vars

\* loss_cardinality applied to every batch within the bounds.
CardInit == InitCard /\ IdleModel /\ IdleCrit /\ IdleBuild /\ IdleData

SpecCard == CardInit /\ [][LossCardinality]_vars

\* ================================================================== claims

\* The layers the matcher is to be called for, in call order.
ExpectedMatcherLayers(o) ==
    [i \in 1..NumInter(o) |-> LayerOf(o.inter_outputs[i])]
    \o <<LayerOf(o)>>
    \o [i \in 1..NumAux(o) |-> LayerOf(o.aux_outputs[i])]

MatchedLayers == [n \in 1..Len(matcher_calls) |-> matcher_calls[n].layer]

\* C2: in SetCriterion.forward every loss is computed with the matching the
\* matcher returned for the layer that loss supervises; the matcher is called
\* once per entry of inter_outputs, once for the final layer (on outputs
\* without 'aux_outputs' and 'inter_outputs') and once per entry of
\* aux_outputs, in that order, and before any loss of that layer.
C2_MatchingPerLayer ==
    (task = "criterion" /\ cpc.phase \notin {"idle", "call"}) =>
        /\ \A n \in 1..Len(loss_calls) :
              /\ loss_calls[n].layer \in {MatchedLayers[m] : m \in 1..Len(matcher_calls)}
              /\ loss_calls[n].indices.layer = loss_calls[n].layer
        /\ \A k \in DOMAIN losses : losses[k].indices.layer = losses[k].layer
        /\ Len(matcher_calls) <= Len(ExpectedMatcherLayers(outputs))
        /\ MatchedLayers = SubSeq(ExpectedMatcherLayers(outputs), 1, Len(matcher_calls))
        /\ cpc.phase = "returned" => MatchedLayers = ExpectedMatcherLayers(outputs)
        /\ \A n \in 1..Len(matcher_calls) :
              matcher_calls[n].layer = LayerOf(outputs) =>
                 matcher_calls[n].keys = DOMAIN outputs \ {"aux_outputs", "inter_outputs"}

\* C2 witness: forward returned after supervising two inter layers, the
\* final layer and an aux layer with the losses of build().
C2_Witness ==
    /\ task = "criterion" /\ cpc.phase = "returned"
    /\ NumInter(outputs) = 2 /\ NumAux(outputs) = 1
    /\ cself.losses = build_losses /\ cself.inter_losses = build_inter_losses
    /\ Len(matcher_calls) = 4 /\ Len(loss_calls) > 4

\* C3: build(cfg), for a cfg holding every key it reads, returns a pair of
\* a monorange instance and a SetCriterion with the losses and inter_losses
\* lists of build().
C3_BuildReturns ==
    (task = "build" /\ bpc # "new") =>
        /\ bpc = "returned"
        /\ built.exc = ""
        /\ built.model.class = "monorange"
        /\ built.criterion.class = "SetCriterion"
        /\ built.criterion.self.losses = build_losses
        /\ built.criterion.self.inter_losses = build_inter_losses

\* C4: forward's dict has 'aux_outputs' exactly when aux_loss is set; it then
\* lists the levels of hs but the last, in order, each with its five
\* predictions; the top-level predictions are the last level's; and
\* 'inter_outputs' lists every level of hs_2d.
C4_OutputLayout ==
    (task = "model" /\ mpc = "returned") =>
        LET L2 == levels[1]
            L3 == levels[2]
            n  == query_embeds
        IN  /\ ("aux_outputs" \in DOMAIN out) <=> mself.aux_loss
            /\ "inter_outputs" \in DOMAIN out
            /\ Len(out.inter_outputs) = L2
            /\ \A i \in 1..L2 :
                  out.inter_outputs[i] =
                     [pred_logits |-> HeadOut("class_embed", "hs_2d", i - 1, n),
                      pred_boxes  |-> HeadOut("bbox_embed", "hs_2d", i - 1, n)]
            /\ out.pred_logits = HeadOut("class_embed", "hs", L3 - 1, n)
            /\ out.pred_boxes = HeadOut("bbox_embed", "hs", L3 - 1, n)
            /\ out.pred_3d_dim = HeadOut("dim_embed_3d", "hs", L3 - 1, n)
            /\ out.pred_angle = HeadOut("angle_embed", "hs", L3 - 1, n)
            /\ out.pred_range = HeadOut("range_embed", "hs", L3 - 1, n)
            /\ mself.aux_loss =>
                  /\ Len(out.aux_outputs) = L3 - 1
                  /\ \A i \in 1..(L3 - 1) :
                        out.aux_outputs[i] =
                           [pred_logits |-> HeadOut("class_embed", "hs", i - 1, n),
                            pred_boxes  |-> HeadOut("bbox_embed", "hs", i - 1, n),
                            pred_3d_dim |-> HeadOut("dim_embed_3d", "hs", i - 1, n),
                            pred_angle  |-> HeadOut("angle_embed", "hs", i - 1, n),
                            pred_range  |-> HeadOut("range_embed", "hs", i - 1, n)]

\* C4 witness: a forward with aux_loss over two levels of hs and two of hs_2d.
C4_Witness ==
    /\ task = "model" /\ mpc = "returned" /\ mself.aux_loss
    /\ levels = <<2, 2>> /\ Len(out.aux_outputs) = 1

\* C5: forward hands num_queries * group_num query embeddings to the
\* transformer when training and num_queries otherwise, which is then the
\* number of slots of the predictions; SetCriterion.forward uses the
\* criterion's group_num when training and 1 otherwise, for every matcher
\* call and for num_boxes.
C5_GroupsByMode ==
    /\ (task = "model" /\ mpc = "returned") =>
          /\ query_embeds = IF mself.training
                            THEN margs.num_queries * margs.group_num
                            ELSE margs.num_queries
          /\ out.pred_logits.slots = query_embeds
    /\ (task = "criterion" /\ cpc.phase \notin {"idle", "call"}) =>
          LET g == IF cself.training THEN cself.group_num ELSE 1
          IN  /\ group_num = g
              /\ num_boxes = <<Max(SumSeq(targets) * g, WorldSize), WorldSize>>
              /\ \A n \in 1..Len(matcher_calls) : matcher_calls[n].group_num = g
              /\ \A n \in 1..Len(loss_calls) : loss_calls[n].num_boxes = num_boxes

\* C5 witness: an inference forward of a model built with two groups.
C5_Witness ==
    /\ task = "model" /\ mpc = "returned" /\ ~mself.training
    /\ margs.group_num = 2 /\ margs.num_queries = 2 /\ query_embeds = 2

\* C6: cardinality_error is the mean over the batch of |number of labels -
\* number of queries predicted non-empty|, where a query whose arg-max is
\* any of the num_classes object classes counts as non-empty.
C6_CardinalityCountsEveryClass ==
    (task = "cardinality" /\ card_out # <<0, 0>>) =>
        LET nonempty(row) ==
                Cardinality({q \in DOMAIN row : row[q] \in 0..(NumClasses - 1)})
        IN  card_out =
              <<SumSeq([b \in DOMAIN card_in.argmax |->
                          Abs(nonempty(card_in.argmax[b]) - card_in.tgt_lengths[b])]),
                Len(card_in.argmax)>>

\* The criterion is one build() makes, in either mode.
BuiltByBuild(self) ==
    \E cfg \in BuildCfgs : [self EXCEPT !.training = TRUE] = build_criterion(cfg)

\* C8: every unsuffixed key of the weight_dict build() makes is a key of the
\* dict the forward of the criterion build() makes returns.
C8_WeightedLossesEmitted ==
    (task = "criterion" /\ cpc.phase = "returned" /\ BuiltByBuild(cself)) =>
        \A k \in DOMAIN cself.weight_dict : k.sfx = "" => k \in DOMAIN losses

\* C1: for every split other than 'test', __getitem__ completes without
\* raising and returns (image, calib.P2, targets, info), targets holding
\* the twelve per-object arrays, each of max_objs = 50 rows.
C1_GetItemReturnsTargets ==
    (task = "dataset" /\ dpc \in {"search", "encode", "raised", "returned"}
        /\ dself.split # "test")
    => /\ dpc # "raised"
       /\ dpc = "returned" =>
             /\ Len(result) = 4
             /\ result[2] = get_calib(index).P2
             /\ DOMAIN result[3] = target_arrays
             /\ \A k \in target_arrays : result[3][k].rows = 50

\* C7: the constructor fails with an AssertionError, no file opened, when
\* split is none of 'train', 'rain_1', 'trainval', 'test' or bbox2d_type is
\* neither 'anno' nor 'proj'; once constructed, the data directory is
\* 'testing' exactly when split is 'test' and 'training' otherwise.
C7_ConstructorAsserts ==
    (task = "dataset" /\ dpc # "new")
    => /\ (\/ dargs.split \notin {"train", "rain_1", "trainval", "test"}
           \/ cfg_get(dargs.cfg, "bbox2d_type", "anno") \notin {"anno", "proj"})
          => (dpc = "failed" /\ dexc = "AssertionError" /\ opened = <<>>)
       /\ dpc # "failed"
          => /\ dargs.split = "test" => dself.data_dir = <<dargs.cfg.root_dir, "testing">>
             /\ dargs.split # "test" => dself.data_dir = <<dargs.cfg.root_dir, "training">>

C7_Witness ==
    /\ task = "dataset" /\ dpc = "failed" /\ dexc = "AssertionError"
    /\ opened = <<>>
    /\ dargs.split = "val"
    /\ cfg_get(dargs.cfg, "bbox2d_type", "anno") = "proj"

\* An object that the claimed filters let through.
Encodable(self, o) ==
    /\ o.cls_type \in self.writelist
    /\ o.level_str # "UnKnown"
    /\ o.depth >= 2
    /\ o.depth <= 65

C11_SearchTerminates ==
    /\ [](task = "dataset" /\ dpc \in {"search", "encode", "raised", "returned"}
            => /\ count_num <= 50
               /\ dpc = "search" => (count_num < 50 /\ ~random_mix_flag /\ ~img.blended)
               /\ random_mix_flag => (dpc # "search" /\ img.blended)
               /\ ~random_mix_flag =>
                     /\ ~img.blended
                     /\ \A w \in writes : w.src # "partner")
    /\ (task = "dataset" /\ dpc = "search") ~> (task = "dataset" /\ dpc # "search")

\* C11 witness: a search given up after its fiftieth rejected candidate,
\* __getitem__ gone on past it.
C11_Witness ==
    /\ task = "dataset" /\ dpc \in {"raised", "returned"}
    /\ count_num = 50 /\ ~random_mix_flag /\ ~img.blended

\* C12: a partner is accepted (random_mix_flag set, image blended) only if
\* its camera intrinsics cu, cv, fu, fv are those of the primary sample,
\* its image has the primary image's width and height, and the two label
\* files hold fewer than max_objs objects together; and the partner image
\* is flipped before the blend exactly when the primary image was.
C12_AcceptedPartnerMatches ==
    (task = "dataset" /\ dpc \in {"search", "encode", "raised", "returned"}
        /\ random_mix_flag)
    => /\ img.blended /\ img.with = random_index
       /\ calib_files[random_index].cu = calib_files[index].cu
       /\ calib_files[random_index].cv = calib_files[index].cv
       /\ calib_files[random_index].fu = calib_files[index].fu
       /\ calib_files[random_index].fv = calib_files[index].fv
       /\ image_files[random_index] = image_files[index]
       /\ label_files[index].n + label_files[random_index].n < 50
       /\ img.with_flipped <=> img.flipped

\* C13: get_calib(idx) is the calibration of sample idx: the calibration
\* __getitem__ holds, and the P2 it returns, are those of the sample asked
\* for, and a candidate the search accepts has the primary sample's camera.
C13_CalibOfSample ==
    (task = "dataset" /\ dpc \in {"search", "encode", "raised", "returned"})
    => /\ calib = calib_files[index]
       /\ dpc = "returned" => result[2] = calib_files[index].P2
       /\ random_mix_flag =>
             \A k \in {"cu", "cv", "fu", "fv"} :
                calib_files[random_index][k] = calib_files[index][k]

====
